---- MODULE Spec2Model ----
(***************************************************************************)
(* The connection manager of src/src/manager.ts (the useWeb3Manager hook). *)
(*                                                                         *)
(* State: the reducer snapshot web3State, the handlers registered on       *)
(* window.ethereum by the two listener effects, the promises of            *)
(* setConnector / activateAccount calls that are suspended at an await,    *)
(* and a record of what the most recent step did (the hooks it invoked,    *)
(* the actions it dispatched, how the promise it concerns settled).        *)
(*                                                                         *)
(* JavaScript values: undefined is Undefined, null is Null; an absent      *)
(* networkId is NoNetworkId, as networkId is the one numeric field.  An    *)
(* Error is identified by its code.  A library handle is identified by     *)
(* the connector whose getLibrary produced it.                             *)
(*                                                                         *)
(* A dispatch commits the new snapshot and re-renders the hook.  The       *)
(* effects of a render (all cleanups, then all setups) are passive: React  *)
(* runs them with the dispatch or later, and before the next render at the *)
(* latest.  rendered is the snapshot of the render whose effects have run; *)
(* it differs from web3State while the effects of the latest render are    *)
(* pending.  After the teardown the callbacks the hook returned and the    *)
(* promises in flight go on; React drops what they dispatch.               *)
(*                                                                         *)
(* Each render returns a new manager object, whose setConnector and        *)
(* activateAccount close over the snapshot of that render.  A caller calls *)
(* the functions of the latest render or those of a manager object it      *)
(* holds from an earlier render; held lists what the functions of the      *)
(* renders before the latest one close over, the most recent first.        *)
(*                                                                         *)
(* Spec is the mounted hook.  LedgerSpec adds its teardown and a ledger,   *)
(* a history of the onActivation and onDeactivation calls made so far.     *)
(* InjectedSpec is the InjectedConnector of src/unnamed/part_000 on its    *)
(* own: the manager does not call it, so each specification leaves the     *)
(* other component in its initial state.                                   *)
(***************************************************************************)
EXTENDS Bags, FiniteSets, Integers, Sequences, TLC

VARIABLES web3State, rendered, mounted, held, ethereum, networkListeners,
          accountListeners, pending, last, ledger, injected

vars == <<web3State, rendered, mounted, held, ethereum, networkListeners,
          accountListeners, pending, last, ledger, injected>>

\* the variables of the manager
manager == <<web3State, rendered, mounted, held, ethereum, networkListeners,
             accountListeners, pending, last, ledger>>

(***************************************************************************)
(* Bounds                                                                  *)
(***************************************************************************)
MaxCalls == 1        \* promises in flight at once, in Spec (the code sets no limit)
MaxOverlap == 2      \* promises in flight at once, in OverlapSpec
MaxAccounts == 1     \* length of the list an accountsChanged event reports
MaxUnmatched == 1    \* activations of one connector the ledger holds unmatched
MaxRegistrations == 2 \* times one handler is registered on the provider
MaxActivating == 2   \* activate() calls in flight at once
MaxStale == 1        \* renders a manager object in use lies behind the latest

(***************************************************************************)
(* Values                                                                  *)
(***************************************************************************)
Undefined == "undefined"
Null == "null"
NoNetworkId == -1

\* the registry passed to the hook: name -> connector configuration
connectors ==
  [ injected |-> [ activateAccountImmediately |-> TRUE,
                   listenForNetworkChanges    |-> TRUE,
                   listenForAccountChanges    |-> TRUE ],
    network  |-> [ activateAccountImmediately |-> FALSE,
                   listenForNetworkChanges    |-> FALSE,
                   listenForAccountChanges    |-> TRUE ] ]

validConnectorNames == DOMAIN connectors

\* a name that is not a key of the registry
UnknownName == "nope"

\* the handle connector c's getLibrary produces
LibraryOf(c) == "library:" \o c

Libraries == { LibraryOf(c) : c \in validConnectorNames }

\* network ids a connector or a networkChanged event reports
NetworkIds == {0, 1}

Accounts == {"0xabc"}

WALLETCONNECT_TIMEOUT == "WALLETCONNECT_TIMEOUT"

\* errors a connector hook may reject with, by code
Errors == {WALLETCONNECT_TIMEOUT, "UNSUPPORTED_NETWORK"}

\* JavaScript truthiness of the snapshot's fields
TruthyString(v) == v \notin {Undefined, Null, ""}

TruthyNumber(n) == n # NoNetworkId /\ n # 0

(***************************************************************************)
(* State store                                                             *)
(***************************************************************************)
initialWeb3State ==
  [ connectorName |-> Undefined,
    library       |-> Undefined,
    networkId     |-> NoNetworkId,
    account       |-> Undefined,
    error         |-> Null ]

\* an action is [type, connectorName, library, networkId, account, error];
\* a type reads only the fields of its payload
Action(type, connectorName, library, networkId, account, error) ==
  [ type |-> type, connectorName |-> connectorName, library |-> library,
    networkId |-> networkId, account |-> account, error |-> error ]

UpdateConnectorValues(connectorName, library, networkId, account) ==
  Action("UPDATE_CONNECTOR_VALUES", connectorName, library, networkId, account, Null)

UpdateNetworkId(networkId) ==
  Action("UPDATE_NETWORK_ID", Undefined, Undefined, networkId, Undefined, Null)

UpdateAccount(account) ==
  Action("UPDATE_ACCOUNT", Undefined, Undefined, NoNetworkId, account, Null)

UpdateError(error) ==
  Action("UPDATE_ERROR", Undefined, Undefined, NoNetworkId, Undefined, error)

UpdateErrorWithName(error, connectorName) ==
  Action("UPDATE_ERROR_WITH_NAME", connectorName, Undefined, NoNetworkId, Undefined, error)

Reset == Action("RESET", Undefined, Undefined, NoNetworkId, Undefined, Null)

\* the cases of the reducer, one per action type
UPDATE_CONNECTOR_VALUES(state, action) ==
  [ connectorName |-> action.connectorName,
    library       |-> action.library,
    networkId     |-> action.networkId,
    account       |-> action.account,
    error         |-> Null ]

UPDATE_NETWORK_ID(state, action) == [state EXCEPT !.networkId = action.networkId]

\* mutant: an account is not written into a snapshot that names no connector
UPDATE_ACCOUNT_ifNamed(state, action) ==
  IF state.connectorName = Undefined THEN state
  ELSE [state EXCEPT !.account = action.account]

UPDATE_ACCOUNT(state, action) == [state EXCEPT !.account = action.account]

\* mutant: a global error discards the committed account
UPDATE_ERROR_dropsAccount(state, action) ==
  [state EXCEPT !.error = action.error, !.account = Undefined]

UPDATE_ERROR(state, action) == [state EXCEPT !.error = action.error]

\* mutant: the error is set, the name is not
UPDATE_ERROR_WITH_NAME_errorOnly(state, action) == [state EXCEPT !.error = action.error]

UPDATE_ERROR_WITH_NAME(state, action) ==
  [state EXCEPT !.error = action.error, !.connectorName = action.connectorName]

\* mutant: only the error is cleared
RESET_errorOnly(state, action) == [state EXCEPT !.error = Null]

RESET(state, action) == initialWeb3State

web3StateReducer(state, action) ==
  CASE action.type = "UPDATE_CONNECTOR_VALUES" -> UPDATE_CONNECTOR_VALUES(state, action)
    [] action.type = "UPDATE_NETWORK_ID"       -> UPDATE_NETWORK_ID(state, action)
    [] action.type = "UPDATE_ACCOUNT"          -> UPDATE_ACCOUNT(state, action)
    [] action.type = "UPDATE_ERROR"            -> UPDATE_ERROR(state, action)
    [] action.type = "UPDATE_ERROR_WITH_NAME"  -> UPDATE_ERROR_WITH_NAME(state, action)
    [] action.type = "RESET"                   -> RESET(state, action)

web3Initialized(state) ==
  /\ TruthyString(state.connectorName)
  /\ TruthyString(state.library)
  /\ TruthyNumber(state.networkId)
  /\ state.account # Undefined
  /\ state.error = Null

\* the name of the active connector, Undefined when there is none
activeConnector(state) ==
  IF TruthyString(state.connectorName) THEN state.connectorName ELSE Undefined

(***************************************************************************)
(* Effects                                                                 *)
(***************************************************************************)
\* a call the manager makes on a connector or on window.ethereum
Call(what, who) == <<what, who>>

\* removeListener: drops the first registration of the handler
RECURSIVE RemoveListener(_, _)
RemoveListener(listeners, handler) ==
  IF listeners = <<>> THEN <<>>
  ELSE IF Head(listeners) = handler THEN Tail(listeners)
  ELSE <<Head(listeners)>> \o RemoveListener(Tail(listeners), handler)

\* mutant: the networkChanged effect does not test web3Initialized
ListensForNetwork_uninitialized(state) ==
  /\ activeConnector(state) # Undefined
  /\ connectors[activeConnector(state)].listenForNetworkChanges
  /\ ethereum

\* the body of the networkChanged effect installs a handler
ListensForNetwork(state) ==
  /\ web3Initialized(state)
  /\ activeConnector(state) # Undefined
  /\ connectors[activeConnector(state)].listenForNetworkChanges
  /\ ethereum

\* the body of the accountsChanged effect installs a handler
ListensForAccounts(state) ==
  /\ web3Initialized(state)
  /\ activeConnector(state) # Undefined
  /\ connectors[activeConnector(state)].listenForAccountChanges
  /\ ethereum

\* mutant: the deactivation effect runs once, on mount
DeactivationDeps_none(state) == <<>>

\* dependencies of the deactivation effect
DeactivationDeps(state) == <<activeConnector(state)>>

\* mutant: the listener effects depend on web3Initialized alone
ListenerDeps_initializedOnly(state) == <<web3Initialized(state)>>

\* dependencies of either listener effect
ListenerDeps(state) ==
  <<web3Initialized(state), activeConnector(state), state.connectorName>>

\* cleanups of the effects whose dependencies changed, in declaration order
EffectCleanups(old, new) ==
  (IF DeactivationDeps(old) # DeactivationDeps(new) /\ activeConnector(old) # Undefined
     THEN <<Call("onDeactivation", activeConnector(old))>> ELSE <<>>)
  \o
  (IF ListenerDeps(old) # ListenerDeps(new) /\ ListensForNetwork(old)
     THEN <<Call("removeListener:networkChanged", activeConnector(old))>> ELSE <<>>)
  \o
  (IF ListenerDeps(old) # ListenerDeps(new) /\ ListensForAccounts(old)
     THEN <<Call("removeListener:accountsChanged", activeConnector(old))>> ELSE <<>>)

\* bodies of the effects whose dependencies changed, in declaration order
EffectSetups(old, new) ==
  (IF ListenerDeps(old) # ListenerDeps(new) /\ ListensForNetwork(new)
     THEN <<Call("on:networkChanged", activeConnector(new))>> ELSE <<>>)
  \o
  (IF ListenerDeps(old) # ListenerDeps(new) /\ ListensForAccounts(new)
     THEN <<Call("on:accountsChanged", activeConnector(new))>> ELSE <<>>)

\* window.ethereum's handlers for an event after the on / removeListener
\* calls among calls, in order
RECURSIVE Registered(_, _, _)
Registered(listeners, event, calls) ==
  IF calls = <<>> THEN listeners
  ELSE LET call == Head(calls) IN
       Registered(
         IF call[1] = "on:" \o event THEN Append(listeners, call[2])
         ELSE IF call[1] = "removeListener:" \o event THEN RemoveListener(listeners, call[2])
         ELSE listeners,
         event, Tail(calls))

(***************************************************************************)
(* The record of the most recent step                                      *)
(***************************************************************************)
\* op and path name the code that ran; connectorName is the connector name
\* the step is about; suppressGlobalError is the argument of the call it
\* belongs to when the call gets to where a catch block can read it, and TRUE
\* otherwise; error is the rejection it caught; thrown is what the call's
\* promise rejected with; calls are the calls it made on connectors and
\* window.ethereum; dispatched its actions
Step(op, path, connectorName, suppressGlobalError, error, thrown, settled, calls, dispatched) ==
  [ op |-> op, path |-> path, connectorName |-> connectorName,
    suppressGlobalError |-> suppressGlobalError,
    error |-> error, thrown |-> thrown, settled |-> settled,
    calls |-> calls, dispatched |-> dispatched ]

\* the hook is mounted: its teardown has not run
Mounted == mounted

\* the effects a render with snapshot new runs after a render with snapshot
\* old: the cleanups, then the bodies
Effects(old, new) == EffectCleanups(old, new) \o EffectSetups(old, new)

\* how often calls holds the call
Count(calls, call) == Cardinality({ i \in DOMAIN calls : calls[i] = call })

\* the ledger is a history of the lifecycle hooks invoked so far: for each
\* connector it observes, the onActivation calls minus the onDeactivation
\* calls; it observes the connectors of its domain
Recorded(calls) ==
  [ c \in DOMAIN ledger |->
      ledger[c] + Count(calls, Call("onActivation", c))
                - Count(calls, Call("onDeactivation", c)) ]

\* the activations of a connector the ledger holds unmatched
Unmatched(connectorName) ==
  IF connectorName \in DOMAIN ledger THEN ledger[connectorName] ELSE 0

\* what setConnector and activateAccount of a render with the given snapshot
\* close over and read: web3State.connectorName, web3Initialized,
\* web3State.account and web3State.library (activeConnector follows from the
\* name)
Closure(state) ==
  [ connectorName   |-> state.connectorName,
    web3Initialized |-> web3Initialized(state),
    account         |-> state.account,
    library         |-> state.library ]

\* the closures of the renders before the latest one, once the hook has
\* rendered again after a render with the given snapshot
Rendered(state) ==
  LET earlier == <<Closure(state)>> \o held
  IN  SubSeq(earlier, 1, IF Len(earlier) < MaxStale THEN Len(earlier) ELSE MaxStale)

\* the reducer returns the snapshot it was given: RESET on a snapshot that is
\* initialWeb3State itself.  A snapshot equal to the initial one may be that
\* object or a copy of it ({...state} with the account set to undefined)
ReturnsSameState(action) ==
  action.type = "RESET" /\ web3State = initialWeb3State

\* dispatchWeb3State(action): React first runs the effects still pending
\* from the previous render, then commits the new snapshot and re-renders;
\* the effects of this render run with it or stay pending.  When the reducer
\* returns the state it was given React may bail out without rendering, so
\* that the pending effects stay pending.  On an unmounted hook the dispatch
\* is dropped
dispatchWeb3State(action, op, path, connectorName, suppressGlobalError, error, thrown, settled) ==
  IF ~Mounted
    THEN /\ last' = Step(op, path, connectorName, suppressGlobalError, error, thrown,
                         settled, <<>>, <<action>>)
         /\ ledger' = Recorded(<<>>)
         /\ UNCHANGED <<web3State, rendered, mounted, held, networkListeners,
                        accountListeners, injected>>
    ELSE \/ /\ ReturnsSameState(action)
            /\ last' = Step(op, path, connectorName, suppressGlobalError, error,
                            thrown, settled, <<>>, <<action>>)
            /\ ledger' = Recorded(<<>>)
            /\ UNCHANGED <<web3State, rendered, mounted, held, networkListeners,
                           accountListeners, injected>>
         \/ \E flushed \in BOOLEAN :
              LET new    == web3StateReducer(web3State, action)
                  before == Effects(rendered, web3State)
                  after  == IF flushed THEN Effects(web3State, new) ELSE <<>>
                  calls  == before \o after
              IN  /\ web3State' = new
                  /\ held' = Rendered(web3State)
                  /\ rendered' = IF flushed \/ Effects(web3State, new) = <<>>
                                   THEN new ELSE web3State
                  /\ networkListeners' = Registered(networkListeners, "networkChanged", calls)
                  /\ accountListeners' = Registered(accountListeners, "accountsChanged", calls)
                  /\ last' = Step(op, path, connectorName, suppressGlobalError, error,
                                  thrown, settled, calls, <<action>>)
                  /\ ledger' = Recorded(calls)
                  /\ UNCHANGED <<mounted, injected>>

\* a step that dispatches nothing
NoDispatch(op, path, connectorName, suppressGlobalError, error, thrown, settled, calls) ==
  /\ ledger' = Recorded(calls)
  /\ last' = Step(op, path, connectorName, suppressGlobalError, error, thrown,
                  settled, calls, <<>>)
  /\ UNCHANGED <<web3State, rendered, mounted, held, networkListeners, accountListeners,
                 injected>>

\* the effects of the latest render that have not run yet
PendingEffects == Effects(rendered, web3State)

\* React runs the pending effects of the latest render
flushEffects ==
  LET calls == Effects(rendered, web3State)
  IN  /\ Mounted
      /\ rendered # web3State
      /\ rendered' = web3State
      /\ networkListeners' = Registered(networkListeners, "networkChanged", calls)
      /\ accountListeners' = Registered(accountListeners, "accountsChanged", calls)
      /\ last' = Step("useWeb3Manager", "effects", web3State.connectorName, TRUE,
                      Null, Null, "none", calls, <<>>)
      /\ ledger' = Recorded(calls)
      /\ UNCHANGED <<web3State, mounted, held, ethereum, pending, injected>>

(***************************************************************************)
(* InjectedConnector (src/unnamed/part_000)                                *)
(*                                                                         *)
(* State: window.ethereum as the connector finds it, how often each of the *)
(* connector's four bound handlers is registered on it, how many          *)
(* activate() calls are suspended at each await, and what the most recent  *)
(* operation was, how the most recent activate() settled and what the most *)
(* recent handler emitted.                                                 *)
(***************************************************************************)
\* the provider events the connector handles
Events == {"chainChanged", "accountsChanged", "close", "networkChanged"}

\* window.ethereum: undefined, or a provider that has or lacks on and
\* removeListener and is or is not MetaMask
NoEthereum ==
  [ present |-> FALSE, on |-> FALSE, removeListener |-> FALSE, isMetaMask |-> FALSE ]

Providers ==
  {NoEthereum} \cup
  [ present : {TRUE}, on : BOOLEAN, removeListener : BOOLEAN, isMetaMask : BOOLEAN ]

USER_REJECTED == 4001

\* the codes eth_requestAccounts rejects with
SendErrorCodes == {USER_REJECTED, -32601}

\* the await the activate() calls in flight are suspended at, given how many
\* await eth_requestAccounts and how many the enable() fallback
Awaited(sends, enables) ==
  IF sends > 0 THEN "eth_requestAccounts"
  ELSE IF enables > 0 THEN "enable" ELSE "idle"

\* new InjectedConnector(kwargs), with window.ethereum as given
InjectedConnector(provider) ==
  [ ethereum |-> provider,
    autoRefreshOnNetworkChange |-> provider.isMetaMask,
    handlers |-> [ e \in Events |-> 0 ],
    sends    |-> 0,
    enables  |-> 0,
    pc       |-> "idle",
    op       |-> "constructor",
    result   |-> "none",
    account  |-> Undefined,
    emitted  |-> "none" ]

\* how activate() rejects
Rejections == {"NoEthereumProviderError", "UserRejectedRequestError", "EnableError"}

\* window.ethereum.on for each of the four handlers
On(handlers) == [ e \in Events |-> handlers[e] + 1 ]

\* window.ethereum.removeListener for each of the four handlers: one
\* registration of the handler is removed, if there is one
Off(handlers) ==
  [ e \in Events |-> IF handlers[e] > 0 THEN handlers[e] - 1 ELSE 0 ]

\* activate() up to its first await
activate ==
  /\ \A e \in Events : injected.handlers[e] < MaxRegistrations
  /\ injected.sends + injected.enables < MaxActivating
  /\ IF ~injected.ethereum.present
       THEN injected' = [injected EXCEPT !.op = "activate",
                                         !.result = "NoEthereumProviderError"]
       ELSE injected' =
              [injected EXCEPT
                 !.op = "activate",
                 !.result = "pending",
                 !.handlers = IF injected.ethereum.on THEN On(@) ELSE @,
                 !.autoRefreshOnNetworkChange =
                    IF injected.ethereum.isMetaMask THEN FALSE ELSE @,
                 !.sends = @ + 1,
                 !.pc = "eth_requestAccounts"]
  /\ UNCHANGED manager

\* the account an account request resolves with: parseSendReturn(...)[0]
RequestedAccounts == Accounts \cup {Undefined}

\* send('eth_requestAccounts') resolves for one of the calls awaiting it
requestAccountsResolves(account) ==
  /\ injected.sends > 0
  /\ injected' = [injected EXCEPT
                    !.sends = @ - 1,
                    !.pc = Awaited(injected.sends - 1, injected.enables),
                    !.op = "activate",
                    !.result = "resolved", !.account = account]
  /\ UNCHANGED manager

\* send('eth_requestAccounts') rejects for one of the calls awaiting it: the
\* catch block
requestAccountsRejects(code) ==
  /\ injected.sends > 0
  /\ IF code = USER_REJECTED
       THEN injected' = [injected EXCEPT
                           !.sends = @ - 1,
                           !.pc = Awaited(injected.sends - 1, injected.enables),
                           !.op = "activate",
                           !.result = "UserRejectedRequestError"]
       ELSE injected' = [injected EXCEPT
                           !.sends = @ - 1,
                           !.enables = @ + 1,
                           !.pc = Awaited(injected.sends - 1, injected.enables + 1),
                           !.op = "activate"]
  /\ UNCHANGED manager

\* the fallback window.ethereum.enable() resolves
enableResolves(account) ==
  /\ injected.enables > 0
  /\ injected' = [injected EXCEPT
                    !.enables = @ - 1,
                    !.pc = Awaited(injected.sends, injected.enables - 1),
                    !.op = "activate",
                    !.result = "resolved", !.account = account]
  /\ UNCHANGED manager

\* the fallback window.ethereum.enable() rejects: activate() rejects with it
enableRejects ==
  /\ injected.enables > 0
  /\ injected' = [injected EXCEPT
                    !.enables = @ - 1,
                    !.pc = Awaited(injected.sends, injected.enables - 1),
                    !.op = "activate",
                    !.result = "EnableError"]
  /\ UNCHANGED manager

\* deactivate()
deactivate ==
  /\ injected' =
       [injected EXCEPT
          !.op = "deactivate",
          !.handlers = IF injected.ethereum.present /\ injected.ethereum.removeListener
                         THEN Off(@) ELSE @]
  /\ UNCHANGED manager

\* what the handler of an event emits; accounts is the payload of
\* accountsChanged
Emitted(event, accounts) ==
  IF event = "close" THEN "Web3ReactDeactivate"
  ELSE IF event = "accountsChanged" /\ Len(accounts) = 0 THEN "Web3ReactDeactivate"
  ELSE "Web3ReactUpdate"

\* the provider emits an event: a registered handler of the connector runs
handleEvent(event, accounts) ==
  /\ injected.handlers[event] > 0
  /\ injected' = [injected EXCEPT !.op = event, !.emitted = Emitted(event, accounts)]
  /\ UNCHANGED manager

(***************************************************************************)
(* Initial state                                                           *)
(***************************************************************************)
\* the hook after its first render
useWeb3Manager ==
  /\ web3State = initialWeb3State
  /\ rendered = initialWeb3State
  /\ mounted = TRUE
  /\ held = <<>>
  /\ ethereum \in BOOLEAN
  /\ networkListeners = <<>>
  /\ accountListeners = <<>>
  /\ pending = EmptyBag
  /\ last = Step("useWeb3Manager", "mount", Undefined, TRUE, Null, Null, "none", <<>>, <<>>)

\* a ledger that observes no connector
NoLedger == [ c \in {} |-> 0 ]

\* a ledger that observes every connector of the registry
EmptyLedger == [ c \in validConnectorNames |-> 0 ]

Init ==
  /\ useWeb3Manager
  /\ ledger = NoLedger
  /\ injected = InjectedConnector(NoEthereum)

(***************************************************************************)
(* Promises in flight                                                      *)
(***************************************************************************)
\* a setConnector or activateAccount call suspended at the await of hook pc
Promise(op, pc, connectorName, suppressGlobalError, library) ==
  [ op |-> op, pc |-> pc, connectorName |-> connectorName,
    suppressGlobalError |-> suppressGlobalError, library |-> library ]

Promises ==
  { Promise("setConnector", pc, c, s, Undefined) :
      pc \in {"onActivation", "getLibrary"}, c \in validConnectorNames, s \in BOOLEAN }
  \cup
  { Promise("setConnector", "fetch", c, s, LibraryOf(c)) :
      c \in validConnectorNames, s \in BOOLEAN }
  \cup
  { Promise("setConnector", "fetch", c, s, Undefined) :
      c \in validConnectorNames, s \in BOOLEAN }
  \cup
  { Promise("activateAccount", "getAccount", c, s, LibraryOf(l)) :
      c \in validConnectorNames, s \in BOOLEAN, l \in validConnectorNames }

InFlight == BagToSet(pending)

Suspend(p) == pending (+) SetToBag({p})

Resume(p) == pending (-) SetToBag({p})

(***************************************************************************)
(* Error routing                                                           *)
(***************************************************************************)
\* what a catch block does: the actions it dispatches (at most one) and the
\* error it throws (Null when it throws nothing)
Outcome(dispatch, thrown) == [ dispatch |-> dispatch, thrown |-> thrown ]

\* mutant: the cancellation code is not recognized
processError_noTimeout(error, connectorName) ==
  IF TruthyString(connectorName)
    THEN Outcome(<<UpdateErrorWithName(error, connectorName)>>, error)
    ELSE Outcome(<<UpdateError(error)>>, error)

processError(error, connectorName) ==
  IF error = WALLETCONNECT_TIMEOUT THEN Outcome(<<>>, Null)
  ELSE IF TruthyString(connectorName)
         THEN Outcome(<<UpdateErrorWithName(error, connectorName)>>, error)
         ELSE Outcome(<<UpdateError(error)>>, error)

\* mutant: suppressGlobalError is not consulted
catch_alwaysProcessed(suppressGlobalError, error, connectorName) ==
  processError(error, connectorName)

\* the catch block of initializeConnectorValues and of activateAccount
catch(suppressGlobalError, error, connectorName) ==
  IF suppressGlobalError THEN Outcome(<<>>, error)
  ELSE processError(error, connectorName)

\* how the promise of a call settles once its catch block has run
Settlement(outcome) == IF outcome.thrown = Null THEN "resolved" ELSE "rejected"

\* the step of a catch block with the given outcome
Caught(op, p, error, outcome) ==
  IF outcome.dispatch = <<>>
    THEN NoDispatch(op, "caught", p.connectorName, p.suppressGlobalError, error,
                    outcome.thrown, Settlement(outcome), <<>>)
    ELSE dispatchWeb3State(outcome.dispatch[1], op, "caught", p.connectorName,
                           p.suppressGlobalError, error, outcome.thrown,
                           Settlement(outcome))

(***************************************************************************)
(* setConnector                                                            *)
(***************************************************************************)
\* mutant: any non-empty name passes
Recognized_nonEmpty(connectorName) == connectorName # ""

\* the name is a key of the registry
Recognized(connectorName) == connectorName \in validConnectorNames

\* the closures a call can run in: that of the latest render, or that of an
\* earlier render whose manager object the caller holds
Closures == {Closure(web3State)} \cup { held[i] : i \in DOMAIN held }

\* the connector is the one the snapshot of the call's render names
AlreadySet(closure, connectorName) == connectorName = closure.connectorName

\* an early return: logged, nothing else
Return(op, path, connectorName) ==
  /\ NoDispatch(op, path, connectorName, TRUE, Null, Null, "resolved", <<>>)
  /\ UNCHANGED pending

setConnector(closure, connectorName, suppressGlobalError) ==
  /\ UNCHANGED ethereum
  /\ IF ~Recognized(connectorName)
       THEN Return("setConnector", "unknownName", connectorName)
     ELSE IF AlreadySet(closure, connectorName)
       THEN Return("setConnector", "alreadySet", connectorName)
     ELSE /\ Unmatched(connectorName) < MaxUnmatched
          /\ pending' = Suspend(Promise("setConnector", "onActivation", connectorName,
                                        suppressGlobalError, Undefined))
          /\ NoDispatch("setConnector", "initializeConnectorValues", connectorName,
                        suppressGlobalError, Null, Null, "pending",
                        <<Call("onActivation", connectorName)>>)

\* connector.onActivation() resolves: getLibrary is requested
onActivationResolves(p) ==
  /\ p \in InFlight /\ p.op = "setConnector" /\ p.pc = "onActivation"
  /\ pending' = Resume(p) (+) SetToBag({[p EXCEPT !.pc = "getLibrary"]})
  /\ NoDispatch("initializeConnectorValues", "activated", p.connectorName,
                p.suppressGlobalError, Null, Null, "pending",
                <<Call("getLibrary", p.connectorName)>>)
  /\ UNCHANGED ethereum

\* mutant: the account is fetched whatever the connector declares
Fetches_always(connectorName) ==
  <<Call("getNetworkId", connectorName), Call("getAccount", connectorName)>>

\* the fetches initializeConnectorValues starts once it has the library
Fetches(connectorName) ==
  <<Call("getNetworkId", connectorName)>>
  \o (IF connectors[connectorName].activateAccountImmediately
        THEN <<Call("getAccount", connectorName)>> ELSE <<>>)

\* connector.getLibrary() resolves: the fetches are started
getLibraryResolves(p, library) ==
  /\ p \in InFlight /\ p.op = "setConnector" /\ p.pc = "getLibrary"
  /\ pending' = Resume(p) (+) SetToBag({[p EXCEPT !.pc = "fetch", !.library = library]})
  /\ NoDispatch("initializeConnectorValues", "library", p.connectorName,
                p.suppressGlobalError, Null, Null, "pending", Fetches(p.connectorName))
  /\ UNCHANGED ethereum

\* the values a connector's getAccount can resolve to
AccountValues == Accounts \cup {Null, Undefined}

\* the values accountPromise can resolve to
AccountResults(connectorName) ==
  IF Call("getAccount", connectorName)
       \in { Fetches(connectorName)[i] : i \in DOMAIN Fetches(connectorName) }
    THEN AccountValues
    ELSE {Null}

\* Promise.all resolves: the snapshot is replaced
fetchesResolve(p, networkId, account) ==
  /\ p \in InFlight /\ p.op = "setConnector" /\ p.pc = "fetch"
  /\ account \in AccountResults(p.connectorName)
  /\ pending' = Resume(p)
  /\ dispatchWeb3State(
       UpdateConnectorValues(p.connectorName, p.library, networkId, account),
       "initializeConnectorValues", "committed", p.connectorName,
       p.suppressGlobalError, Null, Null, "resolved")
  /\ UNCHANGED ethereum

\* the awaited hook rejects with error: the catch block
initializeConnectorValuesCatch(p, error) ==
  /\ p \in InFlight /\ p.op = "setConnector"
  /\ pending' = Resume(p)
  /\ Caught("initializeConnectorValues", p, error,
            catch(p.suppressGlobalError, error, p.connectorName))
  /\ UNCHANGED ethereum

(***************************************************************************)
(* unsetConnector                                                          *)
(***************************************************************************)
unsetConnector ==
  /\ dispatchWeb3State(Reset, "unsetConnector", "reset", Undefined, TRUE,
                       Null, Null, "none")
  /\ UNCHANGED <<ethereum, pending>>

(***************************************************************************)
(* activateAccount                                                         *)
(***************************************************************************)
\* an account is already populated
AccountActive(closure) == closure.account # Null

activateAccount(closure, suppressGlobalError) ==
  /\ UNCHANGED ethereum
  /\ IF ~closure.web3Initialized
       THEN Return("activateAccount", "uninitialized", Undefined)
     ELSE IF AccountActive(closure)
       THEN Return("activateAccount", "accountActive", Undefined)
     ELSE IF activeConnector(closure) = Undefined \/ ~TruthyString(closure.library)
       THEN Return("activateAccount", "unexpected", Undefined)
     ELSE /\ pending' = Suspend(Promise("activateAccount", "getAccount",
                                        activeConnector(closure), suppressGlobalError,
                                        closure.library))
          /\ NoDispatch("activateAccount", "getAccount", activeConnector(closure),
                        suppressGlobalError, Null, Null, "pending",
                        <<Call("getAccount", activeConnector(closure))>>)

\* activeConnector.getAccount() resolves: the then callback
getAccountResolves(p, account) ==
  /\ p \in InFlight /\ p.op = "activateAccount"
  /\ pending' = Resume(p)
  /\ dispatchWeb3State(UpdateAccount(account), "activateAccount.then", "fetched",
                       p.connectorName, p.suppressGlobalError, Null, Null, "resolved")
  /\ UNCHANGED ethereum

\* activeConnector.getAccount() rejects with error: the catch callback
activateAccountCatch(p, error) ==
  /\ p \in InFlight /\ p.op = "activateAccount"
  /\ pending' = Resume(p)
  /\ Caught("activateAccount.catch", p, error,
            catch(p.suppressGlobalError, error, Undefined))
  /\ UNCHANGED ethereum

(***************************************************************************)
(* Change listeners                                                        *)
(***************************************************************************)
\* window.ethereum emits networkChanged to the registered handler
networkChangedListenerHandler(networkId) ==
  /\ networkListeners # <<>>
  /\ dispatchWeb3State(UpdateNetworkId(networkId), "networkChangedListenerHandler",
                       "event", Head(networkListeners), TRUE, Null, Null, "none")
  /\ UNCHANGED <<ethereum, pending>>

\* the lists an accountsChanged event can report
AccountLists == UNION { [1..n -> Accounts] : n \in 0..MaxAccounts }

\* mutant: an empty list is reported as no account, null
FirstAccount_orNull(accounts) == IF Len(accounts) = 0 THEN Null ELSE accounts[1]

\* accounts[0]
FirstAccount(accounts) == IF Len(accounts) = 0 THEN Undefined ELSE accounts[1]

\* window.ethereum emits accountsChanged to the registered handler
accountsChangedListenerHandler(accounts) ==
  /\ accountListeners # <<>>
  /\ dispatchWeb3State(UpdateAccount(FirstAccount(accounts)),
                       "accountsChangedListenerHandler",
                       "event", Head(accountListeners), TRUE, Null, Null, "none")
  /\ UNCHANGED <<ethereum, pending>>

(***************************************************************************)
(* Teardown                                                                *)
(***************************************************************************)
\* the cleanups of all three effects, in declaration order
UnmountCleanups(state) ==
  (IF activeConnector(state) # Undefined
     THEN <<Call("onDeactivation", activeConnector(state))>> ELSE <<>>)
  \o
  (IF ListensForNetwork(state)
     THEN <<Call("removeListener:networkChanged", activeConnector(state))>> ELSE <<>>)
  \o
  (IF ListensForAccounts(state)
     THEN <<Call("removeListener:accountsChanged", activeConnector(state))>> ELSE <<>>)

\* the component that uses the hook unmounts: React runs the effects still
\* pending, then the cleanup of every effect
Unmount ==
  LET calls == Effects(rendered, web3State) \o UnmountCleanups(web3State)
  IN  /\ Mounted
      /\ mounted' = FALSE
      /\ rendered' = web3State
      /\ networkListeners' = Registered(networkListeners, "networkChanged", calls)
      /\ accountListeners' = Registered(accountListeners, "accountsChanged", calls)
      /\ last' = Step("useWeb3Manager", "unmount", web3State.connectorName, TRUE,
                      Null, Null, "none", calls, <<>>)
      /\ ledger' = Recorded(calls)
      /\ UNCHANGED <<web3State, held, ethereum, pending, injected>>

(***************************************************************************)
(* Specification                                                           *)
(***************************************************************************)
\* a suspended promise is resumed by the settlement of the hook it awaits
Settles(p) ==
  \/ onActivationResolves(p)
  \/ getLibraryResolves(p, LibraryOf(p.connectorName))
  \/ \E networkId \in NetworkIds, account \in AccountValues :
       fetchesResolve(p, networkId, account)
  \/ \E error \in Errors : initializeConnectorValuesCatch(p, error)
  \/ \E account \in AccountValues : getAccountResolves(p, account)
  \/ \E error \in Errors : activateAccountCatch(p, error)

\* the code puts no limit on the calls in flight; a specification lets a
\* call start while the promises suspended stay within its bound
InFlightAtMost(bound) == BagCardinality(pending') <= bound

\* what goes on without the caller: hooks settle, the provider emits events,
\* React runs the pending effects
Goes ==
  \/ \E p \in InFlight : Settles(p)
  \/ \E networkId \in NetworkIds : networkChangedListenerHandler(networkId)
  \/ \E accounts \in AccountLists : accountsChangedListenerHandler(accounts)
  \/ flushEffects

Next ==
  \/ \E closure \in Closures, connectorName \in validConnectorNames \cup {UnknownName},
        suppressGlobalError \in BOOLEAN :
       /\ setConnector(closure, connectorName, suppressGlobalError)
       /\ InFlightAtMost(MaxCalls)
  \/ unsetConnector
  \/ \E closure \in Closures, suppressGlobalError \in BOOLEAN :
       /\ activateAccount(closure, suppressGlobalError)
       /\ InFlightAtMost(MaxCalls)
  \/ Goes

Spec == Init /\ [][Next]_vars

\* some promise of the given call on the given connector is resumed
SomeSettles(op, connectorName) ==
  \E p \in InFlight : p.op = op /\ p.connectorName = connectorName /\ Settles(p)

\* the hooks awaited settle: while calls of one kind on one connector are
\* suspended, one of them is eventually resumed
LiveSpec ==
  Spec /\ \A op \in {"setConnector", "activateAccount"}, c \in validConnectorNames :
            WF_vars(SomeSettles(op, c))

\* the call has started a hook and is suspended
Suspends == pending' # pending

\* the mounted hook with window.ethereum present and a caller that calls the
\* functions of the latest render with suppressGlobalError = false and makes
\* no call that returns early: calls overlap
OverlapInit == Init /\ ethereum

OverlapNext ==
  \/ \E connectorName \in validConnectorNames :
       /\ setConnector(Closure(web3State), connectorName, FALSE)
       /\ Suspends /\ InFlightAtMost(MaxOverlap)
  \/ unsetConnector
  \/ /\ activateAccount(Closure(web3State), FALSE)
     /\ Suspends /\ InFlightAtMost(MaxOverlap)
  \/ Goes

OverlapSpec == OverlapInit /\ [][OverlapNext]_vars

\* the manager with its teardown, the lifecycle hooks it invokes recorded
LedgerInit ==
  /\ useWeb3Manager
  /\ ledger = EmptyLedger
  /\ injected = InjectedConnector(NoEthereum)

LedgerNext == Next \/ Unmount

LedgerSpec == LedgerInit /\ [][LedgerNext]_vars

\* an InjectedConnector on each kind of provider, the manager not involved
InjectedInit ==
  /\ web3State = initialWeb3State
  /\ rendered = initialWeb3State
  /\ mounted = TRUE
  /\ held = <<>>
  /\ ethereum = FALSE
  /\ networkListeners = <<>>
  /\ accountListeners = <<>>
  /\ pending = EmptyBag
  /\ last = Step("useWeb3Manager", "mount", Undefined, TRUE, Null, Null, "none", <<>>, <<>>)
  /\ ledger = NoLedger
  /\ \E provider \in Providers : injected = InjectedConnector(provider)

InjectedNext ==
  \/ activate
  \/ \E account \in RequestedAccounts : requestAccountsResolves(account)
  \/ \E code \in SendErrorCodes : requestAccountsRejects(code)
  \/ \E account \in RequestedAccounts : enableResolves(account)
  \/ enableRejects
  \/ deactivate
  \/ \E event \in Events, accounts \in AccountLists : handleEvent(event, accounts)

InjectedSpec == InjectedInit /\ [][InjectedNext]_vars

TypeOK ==
  /\ web3State.connectorName \in validConnectorNames \cup {Undefined}
  /\ web3State.library \in Libraries \cup {Undefined}
  /\ web3State.networkId \in NetworkIds \cup {NoNetworkId}
  /\ web3State.account \in AccountValues
  /\ web3State.error \in Errors \cup {Null}
  /\ mounted \in BOOLEAN
  /\ rendered.connectorName \in validConnectorNames \cup {Undefined}
  /\ Len(held) <= MaxStale
  /\ ethereum \in BOOLEAN
  /\ InFlight \subseteq Promises
  /\ BagCardinality(pending) <= MaxOverlap
  /\ DOMAIN ledger \subseteq validConnectorNames
  /\ \A c \in DOMAIN ledger : ledger[c] \in 0..MaxUnmatched
  /\ injected.ethereum \in Providers
  /\ injected.pc = Awaited(injected.sends, injected.enables)
  /\ injected.sends + injected.enables <= MaxActivating
  /\ \A e \in Events : injected.handlers[e] \in 0..MaxRegistrations

(***************************************************************************)
(* Properties                                                              *)
(***************************************************************************)
\* the calls the most recent step made
CallsOf(step) == { step.calls[i] : i \in DOMAIN step.calls }

\* how often the most recent step made a call
TimesCalled(step, call) == Cardinality({ i \in DOMAIN step.calls : step.calls[i] = call })

\* C2: setConnector with a name that is not a key of the registry leaves the
\* snapshot as it was, resolves, calls no connector hook and suspends
\* nothing, whatever the state and the value of suppressGlobalError
C2_UnknownNameIsNoOp ==
  [][ (last'.op = "setConnector" /\ last'.connectorName \notin DOMAIN connectors)
      => /\ web3State' = web3State
         /\ last'.settled = "resolved" /\ last'.thrown = Null
         /\ last'.calls = <<>> /\ last'.dispatched = <<>>
         /\ pending' = pending
         /\ networkListeners' = networkListeners
         /\ accountListeners' = accountListeners ]_vars

\* an unknown name was passed to an initialized manager
C2_Witness ==
  /\ last.op = "setConnector" /\ last.path = "unknownName"
  /\ last.connectorName = UnknownName
  /\ web3State.connectorName # Undefined /\ web3State.networkId = 1

\* C3 as stated: setConnector with the name the snapshot already holds leaves
\* the snapshot (its error included) as it was, resolves and does not call
\* the connector's activation hook, also when the name was put there by a
\* failed activation
C3_SameNameIsNoOp ==
  [][ (last'.op = "setConnector" /\ last'.connectorName = web3State.connectorName)
      => /\ web3State' = web3State
         /\ last'.settled = "resolved" /\ last'.thrown = Null
         /\ last'.calls = <<>> /\ last'.dispatched = <<>>
         /\ pending' = pending ]_vars

\* setConnector of a manager object returned before the connector was
\* committed was called with the name the manager is initialized on: the
\* connector's activation hook was called again and the call is suspended
C3_StaleCallActivates ==
  /\ last.op = "setConnector" /\ last.path = "initializeConnectorValues"
  /\ last.connectorName = web3State.connectorName
  /\ web3Initialized(web3State)
  /\ last.calls = <<Call("onActivation", web3State.connectorName)>>
  /\ \E closure \in Closures : closure.connectorName # web3State.connectorName
  /\ \E p \in InFlight : p.op = "setConnector" /\ p.connectorName = web3State.connectorName

\* C4: right after unsetConnector the snapshot is the initial snapshot
C4_UnsetYieldsInitialSnapshot ==
  last.op = "unsetConnector"
    => /\ web3State = initialWeb3State
       /\ web3State.connectorName = Undefined /\ web3State.library = Undefined
       /\ web3State.networkId = NoNetworkId /\ web3State.account = Undefined
       /\ web3State.error = Null

\* unsetConnector ran while a connector was active
C4_Witness ==
  /\ last.op = "unsetConnector"
  /\ \E c \in DOMAIN connectors : Call("onDeactivation", c) \in CallsOf(last)

\* C5 as stated: activateAccount on a manager that is not initialized, or
\* whose account is not null, leaves the snapshot as it was, resolves and
\* does not call getAccount
C5_ActivateAccountNoOp ==
  [][ ( /\ last'.op = "activateAccount"
        /\ \/ web3State.connectorName \in {Undefined, Null, ""}
           \/ web3State.library \in {Undefined, Null, ""}
           \/ web3State.networkId \in {NoNetworkId, 0}
           \/ web3State.account = Undefined
           \/ web3State.error # Null
           \/ web3State.account # Null )
      => /\ web3State' = web3State
         /\ last'.settled = "resolved" /\ last'.thrown = Null
         /\ last'.calls = <<>> /\ last'.dispatched = <<>>
         /\ pending' = pending ]_vars

\* activateAccount of a manager object returned while the manager was
\* initialized with a null account was called after the snapshot was reset:
\* getAccount was called and the call is suspended
C5_StaleCallFetches ==
  /\ last.op = "activateAccount" /\ last.path = "getAccount"
  /\ web3State = initialWeb3State
  /\ last.calls = <<Call("getAccount", last.connectorName)>>
  /\ \E closure \in Closures : closure.web3Initialized /\ closure.account = Null
  /\ \E p \in InFlight : p.op = "activateAccount"

\* C6: no step of the activation of a connector whose
\* activateAccountImmediately is false calls getAccount, and the snapshot
\* it commits has account = null
C6_NoImmediateAccount ==
  ( /\ last.op \in {"setConnector", "initializeConnectorValues"}
    /\ last.connectorName \in DOMAIN connectors
    /\ ~connectors[last.connectorName].activateAccountImmediately )
  => /\ \A c \in DOMAIN connectors : Call("getAccount", c) \notin CallsOf(last)
     /\ last.path = "committed" => web3State.account = Null

\* such a connector's activation committed
C6_Witness ==
  /\ last.op = "initializeConnectorValues" /\ last.path = "committed"
  /\ ~connectors[last.connectorName].activateAccountImmediately
  /\ web3State.connectorName = last.connectorName /\ web3State.account = Null

\* C7: when a step of an unsuppressed activation rejects with the
\* cancellation code, the promise resolves, nothing is dispatched and the
\* snapshot, hence a null error, stays as it was
C7_TimeoutIsSwallowed ==
  [][ ( /\ last'.op = "initializeConnectorValues" /\ last'.path = "caught"
        /\ ~last'.suppressGlobalError
        /\ last'.error = WALLETCONNECT_TIMEOUT )
      => /\ last'.settled = "resolved" /\ last'.thrown = Null
         /\ last'.dispatched = <<>>
         /\ web3State' = web3State
         /\ web3State.error = Null => web3State'.error = Null ]_vars

\* an unsuppressed activation was cancelled while no error was set
C7_Witness ==
  /\ last.op = "initializeConnectorValues" /\ last.path = "caught"
  /\ ~last.suppressGlobalError /\ last.error = WALLETCONNECT_TIMEOUT
  /\ last.settled = "resolved" /\ web3State.error = Null

\* C8: when a step of an unsuppressed activation rejects with another
\* error, the promise rejects with that error and the snapshot holds that
\* error and the attempted name
C8_ErrorIsCommittedAndRethrown ==
  ( /\ last.op = "initializeConnectorValues" /\ last.path = "caught"
    /\ ~last.suppressGlobalError
    /\ last.error # WALLETCONNECT_TIMEOUT )
  => /\ last.settled = "rejected" /\ last.thrown = last.error
     /\ web3State.error = last.error
     /\ web3State.connectorName = last.connectorName

\* an unsuppressed activation failed while another connector was initialized
C8_Witness ==
  /\ last.op = "initializeConnectorValues" /\ last.path = "caught"
  /\ ~last.suppressGlobalError /\ last.error # WALLETCONNECT_TIMEOUT
  /\ web3State.library # Undefined
  /\ web3State.library # LibraryOf(last.connectorName)

\* C9: with suppressGlobalError = true a failure of the activation sequence
\* or of activateAccount's fetch rejects the promise with the error as it
\* was and leaves the snapshot as it was
C9_SuppressedErrorLeavesState ==
  [][ ( /\ last'.op \in {"initializeConnectorValues", "activateAccount.catch"}
        /\ last'.path = "caught"
        /\ last'.suppressGlobalError )
      => /\ last'.settled = "rejected" /\ last'.thrown = last'.error
         /\ last'.dispatched = <<>>
         /\ web3State' = web3State
         /\ networkListeners' = networkListeners
         /\ accountListeners' = accountListeners ]_vars

\* a suppressed account fetch failed with an error other than the cancellation
C9_Witness ==
  /\ last.op = "activateAccount.catch" /\ last.path = "caught"
  /\ last.suppressGlobalError /\ last.error # WALLETCONNECT_TIMEOUT
  /\ last.settled = "rejected"

\* the connectors on whose behalf a change listener is installed
ListenerOwners ==
  { networkListeners[i] : i \in DOMAIN networkListeners }
  \cup { accountListeners[i] : i \in DOMAIN accountListeners }

\* the step commits connector B while the manager is initialized on
\* another connector, whose change listeners are installed
SwitchCommits ==
  /\ last'.op = "initializeConnectorValues" /\ last'.path = "committed"
  /\ web3Initialized(web3State)
  /\ web3State.connectorName # last'.connectorName
  /\ ListenerOwners = {web3State.connectorName}

\* the step dispatches RESET on an initial snapshot and React bails out of
\* the render
BailsOut ==
  /\ last'.dispatched = <<Reset>>
  /\ web3State = initialWeb3State
  /\ rendered' = rendered

\* the step runs the effects that were pending before it: it dispatches, so
\* that the hook renders again, or React runs them on its own
RunsPendingEffects ==
  \/ last'.dispatched # <<>> /\ ~BailsOut
  \/ last'.op = "useWeb3Manager" /\ last'.path = "effects"

\* a commit of B, made while the manager was initialized on A with a change
\* listener installed, has not had its effects run yet
SwitchPending(A, B) ==
  /\ rendered # web3State
  /\ web3Initialized(rendered) /\ rendered.connectorName = A
  /\ web3State.connectorName = B /\ web3State.error = Null
  /\ A # B
  /\ networkListeners \o accountListeners # <<>>

\* the change listeners are exactly those B declares
ListenersAreThoseOf(B) ==
  /\ networkListeners' =
       IF connectors[B].listenForNetworkChanges THEN <<B>> ELSE <<>>
  /\ accountListeners' =
       IF connectors[B].listenForAccountChanges THEN <<B>> ELSE <<>>

\* the step deactivates A once and leaves exactly B's declared listeners
SwitchesListeners(A, B) ==
  /\ TimesCalled(last', Call("onDeactivation", A)) = 1
  /\ ListenersAreThoseOf(B)

\* C10 as stated: when a setConnector(B) commits on a manager initialized on
\* A with listeners installed, the effects of the commit, run with it or
\* later, deactivate A exactly once and install B's declared listeners;
\* listeners are never installed for two connectors at once
C10_SwitchAsStated ==
  [][ /\ Cardinality(ListenerOwners') <= 1
      /\ (SwitchCommits /\ rendered' = web3State')
           => SwitchesListeners(web3State.connectorName, last'.connectorName)
      /\ \A A, B \in DOMAIN connectors :
           (SwitchPending(A, B) /\ rendered' = web3State)
             => SwitchesListeners(A, B)
    ]_vars

\* setConnector(B) resolved on a manager that was initialized on A with A's
\* listener installed: the values committed name B without the manager being
\* initialized, A is deactivated, its listener removed, and the listener B
\* declares is not installed
C10_SwitchInstallsNone ==
  /\ last.op = "initializeConnectorValues" /\ last.path = "committed"
  /\ last.settled = "resolved"
  /\ web3State.connectorName = last.connectorName
  /\ ~web3Initialized(web3State)
  /\ rendered = web3State
  /\ connectors[web3State.connectorName].listenForAccountChanges
  /\ networkListeners = <<>> /\ accountListeners = <<>>
  /\ \E A \in DOMAIN connectors :
       /\ A # web3State.connectorName
       /\ held # <<>> /\ held[1].connectorName = A /\ held[1].web3Initialized
       /\ TimesCalled(last, Call("onDeactivation", A)) = 1
       /\ Call("removeListener:accountsChanged", A) \in CallsOf(last)

\* C1 as stated: a setConnector(n) call with a name of the registry other
\* than the one the snapshot holds starts the activation of n, and once the
\* hooks of the call have all resolved, to whatever values, the snapshot
\* names n and the manager is initialized
C1_AsStated ==
  [][ \A n \in DOMAIN connectors :
        /\ ( /\ last'.op = "setConnector" /\ last'.connectorName = n
             /\ n # web3State.connectorName )
           => last'.calls = <<Call("onActivation", n)>>
        /\ ( /\ last'.op = "initializeConnectorValues" /\ last'.path = "committed"
             /\ last'.connectorName = n )
           => /\ web3State'.connectorName = n
              /\ web3Initialized(web3State') ]_vars

\* setConnector of a manager object returned while the manager named n was
\* called with n after the snapshot stopped naming n: it returned as already
\* set, no hook of n called and nothing suspended
C1_StaleCallReturns ==
  /\ last.op = "setConnector" /\ last.path = "alreadySet"
  /\ last.connectorName \in DOMAIN connectors
  /\ last.connectorName # web3State.connectorName
  /\ last.calls = <<>> /\ InFlight = {}
  /\ \E closure \in Closures : closure.connectorName = last.connectorName

\* the step changes the active connector from A to another connector B
IdentityChanges(A, B) ==
  /\ A \in DOMAIN connectors /\ B \in DOMAIN connectors /\ A # B
  /\ web3State.connectorName = A
  /\ web3State'.connectorName = B

\* before the step, a setConnector(B) call is suspended at one of its awaits:
\* it called B's onActivation when it started
ActivationHookHasRun(B) ==
  \E p \in InFlight : p.op = "setConnector" /\ p.connectorName = B

\* the cleanup of the deactivation effect for A has not run yet, though the
\* snapshot no longer names A
DeactivationPending(A) ==
  /\ activeConnector(rendered) = A
  /\ activeConnector(web3State) # A

\* A is deactivated exactly once by the effects of the commit that replaced
\* it: in the step of the commit, or, when they are deferred, in the step
\* that runs them and in no step before it
DeactivatedOnce(A) ==
  /\ web3State.connectorName = A /\ web3State'.connectorName # A
       => IF rendered' = web3State'
            THEN TimesCalled(last', Call("onDeactivation", A)) = 1
            ELSE /\ Call("onDeactivation", A) \notin CallsOf(last')
                 /\ DeactivationPending(A)'
  /\ DeactivationPending(A)
       => IF ~RunsPendingEffects
            THEN /\ Call("onDeactivation", A) \notin CallsOf(last')
                 /\ DeactivationPending(A)'
            ELSE TimesCalled(last', Call("onDeactivation", A)) = 1

\* C11 as stated: when the active connector changes from A to B, A is
\* deactivated exactly once, by the effects of the commit of the snapshot
\* naming B, and B's onActivation has not run before that commit
C11_AsStated ==
  [][ \A A, B \in DOMAIN connectors :
        /\ DeactivatedOnce(A)
        /\ IdentityChanges(A, B)
             => /\ last'.dispatched # <<>>
                /\ ~ActivationHookHasRun(B) ]_vars

\* C11: when the active connector changes from A to B, A is deactivated
\* exactly once, by the effects of the commit of the snapshot naming B, run
\* with the commit or later; B's onActivation ran earlier, when
\* setConnector(B) was called, and does not run in the step of the commit
C11_DeactivationFollowsCommit ==
  [][ \A A, B \in DOMAIN connectors :
        /\ DeactivatedOnce(A)
        /\ IdentityChanges(A, B)
             => /\ last'.dispatched # <<>>
                /\ last'.connectorName = B
                /\ ActivationHookHasRun(B)
                /\ Call("onActivation", B) \notin CallsOf(last') ]_vars

\* the deferred effects of a commit of B have run and deactivated the
\* connector that was active before it
C11_Witness ==
  /\ last.op = "useWeb3Manager" /\ last.path = "effects"
  /\ web3State.connectorName \in DOMAIN connectors
  /\ web3State.library = LibraryOf(web3State.connectorName)
  /\ \E A \in DOMAIN connectors :
       A # web3State.connectorName /\ Call("onDeactivation", A) \in CallsOf(last)

\* C13 as stated: in every snapshot connectorName, library and networkId
\* are all absent or all present, account is absent whenever connectorName
\* is absent, and a present library is the one obtained from the connector
\* the snapshot names
C13_PopulatedAsUnit ==
  LET name    == web3State.connectorName # Undefined
      library == web3State.library # Undefined
      network == web3State.networkId # NoNetworkId
  IN  /\ name = library /\ library = network
      /\ ~name => web3State.account = Undefined
      /\ library => web3State.library = LibraryOf(web3State.connectorName)

\* a failed activation left a snapshot that names one connector and holds
\* the library of another
C13_StaleLibrary ==
  /\ last.op = "initializeConnectorValues" /\ last.path = "caught"
  /\ web3State.connectorName \in DOMAIN connectors
  /\ web3State.library \in Libraries
  /\ web3State.library # LibraryOf(web3State.connectorName)

\* C14 as stated: a networkChanged (accountsChanged) listener is installed
\* only if the manager is initialized and the active connector declares
\* listenForNetworkChanges (listenForAccountChanges), and each of the two is
\* registered at most once
C14_ListenersGated ==
  /\ networkListeners # <<>>
       => /\ web3Initialized(web3State)
          /\ web3State.connectorName \in DOMAIN connectors
          /\ connectors[web3State.connectorName].listenForNetworkChanges
  /\ accountListeners # <<>>
       => /\ web3Initialized(web3State)
          /\ web3State.connectorName \in DOMAIN connectors
          /\ connectors[web3State.connectorName].listenForAccountChanges
  /\ Len(networkListeners) <= 1
  /\ Len(accountListeners) <= 1

\* an accountsChanged event reported an empty list: the manager is not
\* initialized and both change listeners are still registered
C14_ListenersOutliveInitialized ==
  /\ last.op = "accountsChangedListenerHandler"
  /\ last.dispatched = <<UpdateAccount(Undefined)>>
  /\ ~web3Initialized(web3State)
  /\ networkListeners # <<>> /\ accountListeners # <<>>

\* the step takes the manager from not initialized to initialized
BecomesInitialized ==
  ~web3Initialized(web3State) /\ web3Initialized(web3State')

\* the types of the actions the step dispatched
DispatchedTypes(step) ==
  { step.dispatched[i].type : i \in 1..Len(step.dispatched) }

ActivationInFlight == \E p \in InFlight : p.op = "setConnector"

\* C16 as stated: while an activation sequence is in flight, and in the step
\* that dispatches UPDATE_CONNECTOR_VALUES, no change listener is registered
C16_AsStated ==
  [][ /\ ActivationInFlight
        => networkListeners = <<>> /\ accountListeners = <<>>
      /\ "UPDATE_CONNECTOR_VALUES" \in DispatchedTypes(last')
        => networkListeners = <<>> /\ accountListeners = <<>> ]_vars

\* C16: UPDATE_CONNECTOR_VALUES is dispatched only by an activation
\* sequence; change listeners can be registered while one is in flight, and
\* those registered are always the listeners of the connector named by the
\* latest render whose effects have run; the effects of the commit, when they
\* run with it, remove every listener of a connector other than the one it
\* names
C16_CommitReplacesListeners ==
  [][ /\ ListenerOwners \subseteq {rendered.connectorName}
      /\ "UPDATE_CONNECTOR_VALUES" \in DispatchedTypes(last')
        => /\ last'.op = "initializeConnectorValues"
           /\ ActivationInFlight
           /\ rendered' = web3State'
                => /\ ListenerOwners' \subseteq {last'.connectorName}
                   /\ \A c \in ListenerOwners \ {last'.connectorName} :
                        \/ Call("removeListener:networkChanged", c) \in CallsOf(last')
                        \/ Call("removeListener:accountsChanged", c) \in CallsOf(last') ]_vars

\* a listener event was handled while an activation sequence was in flight
C16_EventInterleaves ==
  /\ last.op \in {"networkChangedListenerHandler", "accountsChangedListenerHandler"}
  /\ last.dispatched # <<>>
  /\ ActivationInFlight

\* an activation committed while listeners of another connector were
\* registered, and removed them
C16_CommitWitness ==
  /\ last.op = "initializeConnectorValues" /\ last.path = "committed"
  /\ \E c \in DOMAIN connectors :
       /\ c # last.connectorName
       /\ Call("removeListener:accountsChanged", c) \in CallsOf(last)

\* C17: when the account fetch of activateAccount(suppressGlobalError = false)
\* rejects with an error other than the cancellation code, the promise
\* rejects with that error and the snapshot changes in its error field only,
\* which becomes the error; when the fetch resolves, the snapshot changes in
\* its account field only, which becomes the fetched value
C17_AccountFetchSettles ==
  [][ /\ ( /\ last'.op = "activateAccount.catch"
           /\ ~last'.suppressGlobalError
           /\ last'.error # WALLETCONNECT_TIMEOUT )
        => /\ last'.settled = "rejected"
           /\ last'.thrown = last'.error
           /\ last'.dispatched = <<UpdateError(last'.error)>>
           /\ web3State' = [web3State EXCEPT !.error = last'.error]
      /\ last'.op = "activateAccount.then"
        => /\ last'.settled = "resolved"
           /\ \E account \in AccountValues :
                /\ last'.dispatched = <<UpdateAccount(account)>>
                /\ web3State' = [web3State EXCEPT !.account = account] ]_vars

\* an unsuppressed activateAccount failed on a connector whose account had
\* been committed meanwhile: the error is set, the account is kept
C17_Witness ==
  /\ last.op = "activateAccount.catch"
  /\ ~last.suppressGlobalError
  /\ last.error # WALLETCONNECT_TIMEOUT
  /\ web3State.error = last.error
  /\ web3State.connectorName \in DOMAIN connectors
  /\ web3State.library = LibraryOf(web3State.connectorName)
  /\ web3State.networkId = 1
  /\ web3State.account \in Accounts

\* C18: an accountsChanged event sets the account to the first element of
\* the reported list and leaves connectorName, library, networkId and error
\* unchanged; for an empty list the account becomes undefined and the manager
\* is not initialized afterwards, and where it was initialized connectorName,
\* library and networkId are still set; the step dispatches no RESET and
\* leaves the active connector in place: it runs no onDeactivation but one
\* that was pending from an earlier render
C18_AccountsChanged ==
  [][ \A accounts \in AccountLists :
        accountsChangedListenerHandler(accounts)
          => /\ web3State' = [web3State EXCEPT
                                !.account = IF accounts = <<>> THEN Undefined
                                            ELSE Head(accounts)]
             /\ DispatchedTypes(last') = {"UPDATE_ACCOUNT"}
             /\ activeConnector(web3State') = activeConnector(web3State)
             /\ \A c \in DOMAIN connectors :
                  TimesCalled(last', Call("onDeactivation", c))
                    = Count(PendingEffects, Call("onDeactivation", c))
             /\ accounts = <<>>
                  => /\ ~web3Initialized(web3State')
                     /\ web3Initialized(web3State)
                          => /\ web3State'.connectorName \in DOMAIN connectors
                             /\ web3State'.library = LibraryOf(web3State'.connectorName)
                             /\ web3State'.networkId \in NetworkIds \ {0} ]_vars

\* an accountsChanged event reported an empty list: the account is undefined
\* and the snapshot still names its connector
C18_Witness ==
  /\ last.op = "accountsChangedListenerHandler"
  /\ last.dispatched = <<UpdateAccount(Undefined)>>
  /\ web3State.account = Undefined
  /\ web3State.connectorName \in DOMAIN connectors
  /\ ~web3Initialized(web3State)

\* the step resumes a suspended call and runs its then or catch callback
SettlesCall ==
  /\ last'.op \in {"initializeConnectorValues", "activateAccount.then",
                   "activateAccount.catch"}
  /\ \E p \in InFlight : pending' = Resume(p)

\* C19 as stated: a setConnector or activateAccount call that was in flight
\* when unsetConnector ran does not write into the snapshot: the step that
\* follows unsetConnector leaves the snapshot equal to the initial one
C19_AsStated ==
  [][ last.op = "unsetConnector" => web3State' = initialWeb3State ]_vars

\* what the write of a settling call makes of the snapshot it finds
Written(state, action) ==
  CASE action.type = "UPDATE_CONNECTOR_VALUES" ->
         [ connectorName |-> action.connectorName, library |-> action.library,
           networkId |-> action.networkId, account |-> action.account,
           error |-> Null ]
    [] action.type = "UPDATE_ACCOUNT" ->
         [state EXCEPT !.account = action.account]
    [] action.type = "UPDATE_ERROR" ->
         [state EXCEPT !.error = action.error]
    [] action.type = "UPDATE_ERROR_WITH_NAME" ->
         [state EXCEPT !.error = action.error,
                       !.connectorName = action.connectorName]

\* the step handles an event of a change listener whose removal is pending
StaleListenerEvent ==
  /\ last'.op \in {"networkChangedListenerHandler", "accountsChangedListenerHandler"}
  /\ rendered # web3State

\* C19: after unsetConnector the snapshot equals the initial one, and the
\* step that follows changes it only by settling a call that was in flight
\* when unsetConnector ran or by handling an event of a change listener whose
\* removal is still pending; a settling call is never cancelled: what it
\* dispatches is applied to the snapshot it finds, whatever happened since
\* it started (its UPDATE_CONNECTOR_VALUES replaces the snapshot, its
\* UPDATE_ACCOUNT, UPDATE_ERROR or UPDATE_ERROR_WITH_NAME updates it in
\* place), and when it dispatches nothing the snapshot stays as it is
C19_InFlightCallsWrite ==
  [][ /\ last.op = "unsetConnector"
        => /\ web3State = initialWeb3State
           /\ web3State' # web3State => SettlesCall \/ StaleListenerEvent
      /\ SettlesCall
        => /\ Len(last'.dispatched) <= 1
           /\ web3State' = IF last'.dispatched = <<>> THEN web3State
                           ELSE Written(web3State, last'.dispatched[1]) ]_vars

\* unsetConnector has reset a snapshot that named a connector while a call
\* was in flight
C19_UnsetWhileInFlight ==
  /\ last.op = "unsetConnector"
  /\ \E c \in DOMAIN connectors : Call("onDeactivation", c) \in CallsOf(last)
  /\ web3State = initialWeb3State
  /\ pending # EmptyBag

\* an activateAccount call, which starts on an initialized snapshot only, has
\* written the account it fetched into the reset snapshot: the render before
\* the latest had the initial snapshot, and the snapshot names no connector
C19_LateWrite ==
  /\ last.op = "activateAccount.then"
  /\ last.connectorName \in DOMAIN connectors
  /\ held # <<>> /\ held[1] = Closure(initialWeb3State)
  /\ web3State = [initialWeb3State EXCEPT !.account = web3State.account]
  /\ web3State.account \in Accounts

\* an activateAccount call made on one connector was in flight while another
\* connector was committed, and has written the account it fetched into the
\* snapshot of that connector
C19_LateWriteAfterCommit ==
  /\ last.op = "activateAccount.then"
  /\ last.connectorName \in DOMAIN connectors
  /\ web3State.connectorName \in DOMAIN connectors
  /\ last.connectorName # web3State.connectorName
  /\ web3State.library = LibraryOf(web3State.connectorName)
  /\ held # <<>> /\ held[1].connectorName = web3State.connectorName
  /\ web3State.account \in Accounts

\* C12 as stated, over the ledger of lifecycle hook invocations: a connector's
\* onDeactivation is never called more often than its onActivation, and once
\* the hook is torn down with no call in flight every onActivation call has
\* been matched by an onDeactivation call
C12_DeactivatedOncePerActivation ==
  /\ \A c \in DOMAIN ledger : ledger[c] >= 0
  /\ ~Mounted /\ pending = EmptyBag => \A c \in DOMAIN ledger : ledger[c] = 0

\* onDeactivation is never called more often than onActivation
C12_NeverMoreDeactivations ==
  \A c \in DOMAIN ledger : ledger[c] >= 0

\* a setConnector call with suppressGlobalError failed after it had invoked
\* onActivation: nothing is in flight, the snapshot names no connector and the
\* connector's activation is unmatched
C12_Leak ==
  /\ last.op = "initializeConnectorValues" /\ last.path = "caught"
  /\ last.suppressGlobalError
  /\ pending = EmptyBag
  /\ web3State = initialWeb3State
  /\ last.connectorName \in DOMAIN ledger
  /\ ledger[last.connectorName] = 1

\* none of the connector's four handlers is registered on the provider
NoneRegistered == \A e \in Events : injected.handlers[e] = 0

\* no activate() call is in flight
NoneActivating == injected.sends = 0 /\ injected.enables = 0

\* C20 as stated: the four handlers are registered only while activate() runs
\* or after it has succeeded; when activate() has rejected and no other call
\* of it is in flight none of them is left registered, and after deactivate()
\* none is registered
C20_HandlersOnlyWhileActive ==
  /\ ~NoneRegistered => ~NoneActivating \/ injected.result = "resolved"
  /\ ( /\ injected.op = "activate" /\ injected.result \in Rejections
       /\ NoneActivating ) => NoneRegistered
  /\ injected.op = "deactivate" /\ NoneActivating => NoneRegistered

\* the only activate() call made rejected with UserRejectedRequestError on a
\* provider that has on and removeListener, and each of the four handlers is
\* registered
C20_LeakOnRejection ==
  /\ injected.op = "activate"
  /\ injected.result = "UserRejectedRequestError"
  /\ NoneActivating
  /\ injected.ethereum.on /\ injected.ethereum.removeListener
  /\ \A e \in Events : injected.handlers[e] = 1

====
